---- MODULE Spec2Model ----
(***************************************************************************)
(* Automation job orchestrator of server/index.cjs: the activeProcesses    *)
(* registry, the /api/automation/{start,status,stop} handlers,             *)
(* startAutomationScript / runRealPythonAutomation and the stdout, stderr, *)
(* 'close' and 'error' handlers of the spawned python process, the         *)
(* download and files routes, and the credit ledger of the browser's       *)
(* AuthProvider (contexts/AuthContext.tsx).                                *)
(*                                                                         *)
(* Every action is one run of a handler on the node event loop, together   *)
(* with the promise continuations (microtasks) it schedules: those run     *)
(* before the next I/O event is dispatched, so nothing interleaves.        *)
(*                                                                         *)
(* Strings the code inspects are modelled by what the code asks of them:   *)
(* file names are sequences of characters, an output line is its text      *)
(* together with the answers to the includes()/match() tests of the        *)
(* handler.  Emoji of the log texts are left out of the message strings.   *)
(***************************************************************************)
EXTENDS Integers, Sequences, FiniteSets, TLC

VARIABLES
    heap,            \* the processData objects, in allocation order
    activeProcesses, \* Map processId -> processData object (index in heap)
    children,        \* the spawned python process of each object
    promise,         \* promise of runRealPythonAutomation of each object
    fs,              \* uploads, automation_scripts and results directories
    now,             \* Date.now() of the handler that ran last
    last,            \* the step that was taken last and what it answered
    auth             \* user, users and currentUser of the browser's AuthProvider

vars == <<heap, activeProcesses, children, promise, fs, now, last, auth>>

----------------------------------------------------------------------------
(* Bounds *)

MaxJobs == 2    \* processData objects created
MaxNow  == 4    \* handler runs, one per millisecond

----------------------------------------------------------------------------
(* Strings as sequences of characters *)

\* String.prototype.includes
Includes(s, sub) ==
    \E i \in 0..(Len(s) - Len(sub)) :
        \A k \in 1..Len(sub) : s[i + k] = sub[k]

\* index of the '.' the pattern /\.[^/.]+$/ matches at, 0 when it does not
ExtDot(s) ==
    IF \E i \in 1..(Len(s) - 1) :
           /\ s[i] = "."
           /\ \A k \in (i + 1)..Len(s) : s[k] \notin {".", "/"}
    THEN CHOOSE i \in 1..(Len(s) - 1) :
           /\ s[i] = "."
           /\ \A k \in (i + 1)..Len(s) : s[k] \notin {".", "/"}
    ELSE 0

\* inputFile.name.replace(/\.[^/.]+$/, "")
StripExt(s) == IF ExtDot(s) = 0 THEN s ELSE SubSeq(s, 1, ExtDot(s) - 1)

\* String.prototype.endsWith
EndsWith(s, suf) ==
    /\ Len(suf) <= Len(s)
    /\ SubSeq(s, Len(s) - Len(suf) + 1, Len(s)) = suf

----------------------------------------------------------------------------
(* Program constants *)

\* serviceScripts: two of its nine entries
serviceScripts ==
    [s \in {"pdf-excel-converter", "example-automation"} |->
        IF s = "pdf-excel-converter" THEN "pdf_converter.py"
        ELSE "example_automation.py"]

KnownService(s) == s \in DOMAIN serviceScripts

Terminal == {"completed", "failed", "stopped"}

\* a log entry: the template text and the interpolated value
Entry(msg, arg) == [msg |-> msg, arg |-> arg]

NumStr(n) == <<ToString(n)>>

----------------------------------------------------------------------------
(* Requests and directory contents the model draws from *)

FileA == [name |-> <<"a", ".", "c">>]        \* logical file "a.c"
FileB == [name |-> <<"b", ".", "c">>]        \* logical file "b.c"

Stored1A == [name |-> <<"1", "-", "a", ".", "c">>, mtime |-> 1]
Stored2A == [name |-> <<"2", "-", "a", ".", "c">>, mtime |-> 2]

ServiceIds == {"pdf-excel-converter", "example-automation", "no-such-service", ""}
FileLists  == {<<>>, <<FileA>>, <<FileB>>, <<FileA, FileB>>}
RandomTokens == {"r1"}

\* req.body of a start request; hasFiles is FALSE when it has no files property
StartBodies ==
    { [serviceId |-> s, hasFiles |-> TRUE, files |-> f] : s \in ServiceIds, f \in FileLists }
    \cup { [serviceId |-> s, hasFiles |-> FALSE, files |-> <<>>] : s \in ServiceIds }

ReportPdf == <<"r", "e", "p", "o", "r", "t", ".", "p", "d", "f">>

\* a directory tree of the server: uploads in listing order with
\* modification times, the scripts present in automation_scripts, the
\* listing of results and the files of results/pdfs
Disk(uploads, results, pdfs) ==
    [uploads |-> uploads, scripts |-> {"pdf_converter.py"}, results |-> results, pdfs |-> pdfs]

Disks ==
    { Disk(<<Stored1A, Stored2A>>, r, {}) : r \in {<<>>, <<ReportPdf>>} }

----------------------------------------------------------------------------
(* POST /api/automation/start *)

\* comparator (a, b) => statB.mtime - statA.mtime of a stable sort:
\* insert x after the entries that are at least as recent
RECURSIVE InsertByMtime(_, _)
InsertByMtime(sorted, x) ==
    IF sorted = <<>> THEN <<x>>
    ELSE IF Head(sorted).mtime >= x.mtime
         THEN <<Head(sorted)>> \o InsertByMtime(Tail(sorted), x)
         ELSE <<x>> \o sorted

RECURSIVE SortByMtimeDesc(_)
SortByMtimeDesc(seq) ==
    IF seq = <<>> THEN <<>>
    ELSE InsertByMtime(SortByMtimeDesc(SubSeq(seq, 1, Len(seq) - 1)), seq[Len(seq)])

\* the matches are left in listing order
MatchingFiles_ListingOrder(uploads, inputFile) ==
    LET matches(f) == Includes(f.name, StripExt(inputFile.name))
    IN  SelectSeq(uploads, matches)

\* uploadedFiles.filter(includes nameWithoutExt).sort(most recent first)
MatchingFiles(uploads, inputFile) ==
    LET matches(f) == Includes(f.name, StripExt(inputFile.name))
    IN  SortByMtimeDesc(SelectSeq(uploads, matches))

\* the processData literal of the start handler
ProcessData(processId, serviceId, files, t) ==
    [ id            |-> processId,
      serviceId     |-> serviceId,
      status        |-> "running",
      progress      |-> 0,
      startTime     |-> t,
      files         |-> files,
      output        |-> << Entry("Starting automation process...", <<>>),
                           Entry("Service: {}", <<serviceId>>),
                           Entry("Processing {} files...", NumStr(Len(files))) >>,
      resultFiles   |-> <<>>,
      endTime       |-> <<>>,      \* property not set yet
      pythonProcess |-> <<>> ]     \* property not set yet

\* every file of the request is looked up in uploads
LaunchError_EveryFile(p, disk) ==
    IF ~KnownService(p.serviceId)
    THEN <<Entry("No script found for service: {}", <<p.serviceId>>)>>
    ELSE IF Len(p.files) = 0
    THEN <<Entry("No input file found for processing", <<>>)>>
    ELSE IF \E i \in DOMAIN p.files : MatchingFiles(disk.uploads, p.files[i]) = <<>>
    THEN <<Entry("Input file not found: {}", p.files[1].name)>>
    ELSE IF serviceScripts[p.serviceId] \notin disk.scripts
    THEN <<Entry("Automation script not found: {}", <<serviceScripts[p.serviceId]>>)>>
    ELSE <<>>

\* what runRealPythonAutomation throws before it spawns, <<>> when nothing
LaunchError(p, disk) ==
    IF ~KnownService(p.serviceId)
    THEN <<Entry("No script found for service: {}", <<p.serviceId>>)>>
    ELSE IF Len(p.files) = 0
    THEN <<Entry("No input file found for processing", <<>>)>>
    ELSE IF MatchingFiles(disk.uploads, p.files[1]) = <<>>
    THEN <<Entry("Input file not found: {}", p.files[1].name)>>
    ELSE IF serviceScripts[p.serviceId] \notin disk.scripts
    THEN <<Entry("Automation script not found: {}", <<serviceScripts[p.serviceId]>>)>>
    ELSE <<>>

\* path.join(uploadsDir, matchingFile)
InputFilePath(p, disk) ==
    <<"u", "/">> \o MatchingFiles(disk.uploads, p.files[1])[1].name

\* runRealPythonAutomation up to and including spawn
Launched(p, disk, pid) ==
    [p EXCEPT
       !.output = @ \o
          << Entry("Starting real {} automation...", <<p.serviceId>>),
             Entry("Processing file: {}", p.files[1].name),
             Entry("Script: {}", <<serviceScripts[p.serviceId]>>),
             Entry("File path: {}", InputFilePath(p, disk)),
             Entry("Command: python3 {} --headless",
                   <<serviceScripts[p.serviceId]>> \o InputFilePath(p, disk)),
             Entry("Platform: {}", <<"undefined">>),
             Entry("Python detected: {}", <<"python3">>) >>,
       !.pythonProcess = <<pid>>]

\* the catch block only logs
CatchFailed_LogOnly(p, message, t) ==
    [p EXCEPT !.output = Append(@, Entry("Automation failed: {}", <<message.msg>> \o message.arg))]

\* the catch block of startAutomationScript
CatchFailed(p, message, t) ==
    [p EXCEPT !.status  = "failed",
              !.endTime = <<t>>,
              !.output  = Append(@, Entry("Automation failed: {}", <<message.msg>> \o message.arg))]

\* what a handler run leaves behind for the caller: the request it served
\* and the response it sent (http 0 for process events, which answer nobody)
Response(op, id, http, message, body) ==
    [op |-> op, id |-> id, http |-> http, message |-> message, body |-> body]

\* the record is created before the service is looked up
Validation_NoServiceCheck(serviceId, hasFiles, files) ==
    IF serviceId = "" \/ ~hasFiles \/ Len(files) = 0
    THEN "Service ID and files are required"
    ELSE ""

\* the two validation checks of the start handler: the message of the 400
\* response, "" when the request passes
Validation(serviceId, hasFiles, files) ==
    IF serviceId = "" \/ ~hasFiles \/ Len(files) = 0
    THEN "Service ID and files are required"
    ELSE IF ~KnownService(serviceId)
    THEN "Invalid service ID"
    ELSE ""

StartRequest(serviceId, hasFiles, files) ==
    [serviceId |-> serviceId, hasFiles |-> hasFiles, files |-> files]

\* path.join(__dirname, '..', 'automation_scripts', scriptName)
ScriptPath(p) == <<"s", "/", serviceScripts[p.serviceId]>>

\* pythonArgs
PythonArgs(p, disk) == <<ScriptPath(p), InputFilePath(p, disk), <<"--headless">>>>

NoChild == [state |-> "none", sigterm |-> 0, errored |-> FALSE, args |-> <<>>]

\* spawn(pythonCommand, pythonArgs, ...)
NewChild(args) == [state |-> "alive", sigterm |-> 0, errored |-> FALSE, args |-> args]

\* time passes before the handler runs: every handler run of a behaviour
\* reads a later Date.now()
Elapse == /\ now < MaxNow
          /\ now' = now + 1

StartJob(serviceId, hasFiles, files, rnd) ==
    /\ Elapse
    /\ UNCHANGED <<fs, auth>>
    /\ IF Validation(serviceId, hasFiles, files) # ""
       THEN /\ last' = Response("start", <<>>, 400, Validation(serviceId, hasFiles, files),
                                StartRequest(serviceId, hasFiles, files))
            /\ UNCHANGED <<heap, activeProcesses, children, promise>>
       ELSE /\ Len(heap) < MaxJobs
            /\ LET processId == <<ToString(now'), rnd>>
                   p    == ProcessData(processId, serviceId, files, now')
                   err  == LaunchError(p, fs)
                   ref  == Len(heap) + 1
               IN  /\ heap' = Append(heap, IF err = <<>> THEN Launched(p, fs, ref)
                                           ELSE CatchFailed(p, err[1], now'))
                   /\ activeProcesses' =
                        [k \in DOMAIN activeProcesses \cup {processId} |->
                            IF k = processId THEN ref ELSE activeProcesses[k]]
                   /\ children' = Append(children, IF err = <<>> THEN NewChild(PythonArgs(p, fs)) ELSE NoChild)
                   /\ promise' = Append(promise, IF err = <<>> THEN "pending" ELSE "rejected")
                   /\ last' = Response("start", processId, 200,
                                       "Automation process started successfully",
                                       StartRequest(serviceId, hasFiles, files))

----------------------------------------------------------------------------
(* GET /api/automation/status/:processId, POST /api/automation/stop/:processId *)

UnknownId == <<"0", "r0">>

RequestIds == DOMAIN activeProcesses \cup {UnknownId}

\* a lookup that answers with the newest record when the id is not there
Get_FallsBackToNewest(processId) ==
    IF processId \in DOMAIN activeProcesses THEN <<activeProcesses[processId]>>
    ELSE IF heap # <<>> THEN <<Len(heap)>>
    ELSE <<>>

\* activeProcesses.get(processId): <<>> for undefined
Get(processId) ==
    IF processId \in DOMAIN activeProcesses THEN <<activeProcesses[processId]>> ELSE <<>>

\* { success: true, ...process }
Snapshot(processId) == heap[Get(processId)[1]]

GetJobStatus(processId) ==
    /\ Elapse
    /\ UNCHANGED <<heap, activeProcesses, children, promise, fs, auth>>
    /\ IF Get(processId) = <<>>
       THEN last' = Response("status", processId, 404, "Process not found", <<>>)
       ELSE last' = Response("status", processId, 200, "", Snapshot(processId))

\* process.pythonProcess.kill('SIGTERM'): a signal goes out while the child
\* has not been closed
Kill(child) ==
    IF child.state = "alive" THEN [child EXCEPT !.sigterm = @ + 1] ELSE child

\* the status is left for the 'close' handler to set
Stopped_StatusDeferred(p, t) ==
    [p EXCEPT !.output = Append(@, Entry("Process stopped by user", <<>>))]

\* the assignments of the stop handler
Stopped(p, t) ==
    [p EXCEPT !.status  = "stopped",
              !.endTime = <<t>>,
              !.output  = Append(@, Entry("Process stopped by user", <<>>))]

StopJob(processId) ==
    /\ Elapse
    /\ UNCHANGED <<promise, fs, auth>>
    /\ IF Get(processId) = <<>>
       THEN /\ last' = Response("stop", processId, 404, "Process not found", <<>>)
            /\ UNCHANGED <<heap, activeProcesses, children>>
       ELSE LET ref == Get(processId)[1]
                p   == heap[ref]
            IN  /\ children' =
                     IF p.pythonProcess # <<>>
                     THEN [children EXCEPT ![p.pythonProcess[1]] = Kill(@)]
                     ELSE children
                /\ heap' = [heap EXCEPT ![ref] = Stopped(p, now')]
                /\ activeProcesses' =
                     [k \in DOMAIN activeProcesses \cup {processId} |->
                         IF k = processId THEN ref ELSE activeProcesses[k]]
                /\ last' = Response("stop", processId, 200, "Process stopped successfully", <<>>)

----------------------------------------------------------------------------
(* pythonProcess.stdout.on('data') *)

\* a line of output: its text and what the includes()/match() tests of the
\* handler answer on it; ratio is the first (\d+)/(\d+) match
Line(text, marker, processing, slash, ratio, combining, completed) ==
    [text |-> text, marker |-> marker, processing |-> processing, slash |-> slash,
     ratio |-> ratio, combining |-> combining, completed |-> completed]

Processing4of10 == Line("Processing 4/10", FALSE, TRUE, TRUE, <<4, 10>>, FALSE, FALSE)
Processing2of10 == Line("Processing 2/10", FALSE, TRUE, TRUE, <<2, 10>>, FALSE, FALSE)
GeneratingSummary == Line("Generating summary", FALSE, FALSE, FALSE, <<>>, TRUE, FALSE)
InfoGenerating == Line("INFO Generating report", TRUE, FALSE, FALSE, <<>>, TRUE, FALSE)
InfoCompleted == Line("INFO completed successfully", TRUE, FALSE, FALSE, <<>>, FALSE, TRUE)
BlankLine == Line("", FALSE, FALSE, FALSE, <<>>, FALSE, FALSE)

StdoutChunks ==
    { <<Processing4of10>>, <<Processing2of10>>, <<GeneratingSummary>>,
      <<InfoGenerating, BlankLine>>, <<InfoCompleted>>,
      <<Processing4of10, InfoGenerating>> }

\* values of Math.round outside the integers
Infinity == 1000000
NaN      == -1000000

\* Math.floor in the place of Math.round
RoundProgress_Floor(current, total) ==
    IF total = 0 THEN (IF current = 0 THEN NaN ELSE Infinity)
    ELSE (80 * current) \div total

\* Math.round((current / total) * 80)
RoundProgress(current, total) ==
    IF total = 0 THEN (IF current = 0 THEN NaN ELSE Infinity)
    ELSE (2 * 80 * current + total) \div (2 * total)

\* String.prototype.trim, on the texts of the model: two of them are
\* written with blanks around them
Trim(text) ==
    IF text = "  INFO Saving report  " THEN "INFO Saving report"
    ELSE IF text = "   " THEN ""
    ELSE text

\* every line is pushed to the log
OnLine_LogsEveryLine(p, line) ==
    LET logged == [p EXCEPT !.output = Append(@, Entry(Trim(line.text), <<>>))]
    IN  IF line.marker \/ line.processing
        THEN IF line.processing /\ line.slash
             THEN IF line.ratio # <<>>
                  THEN [logged EXCEPT !.progress = RoundProgress(line.ratio[1], line.ratio[2])]
                  ELSE logged
             ELSE IF line.combining
             THEN [logged EXCEPT !.progress = 90]
             ELSE IF line.completed
             THEN [logged EXCEPT !.progress = 100]
             ELSE logged
        ELSE logged

\* a 'completed successfully' line also completes the job
OnLine_CompletesJob(p, line) ==
    IF line.marker \/ line.processing
    THEN LET logged == [p EXCEPT !.output = Append(@, Entry(Trim(line.text), <<>>))]
         IN  IF line.processing /\ line.slash
             THEN IF line.ratio # <<>>
                  THEN [logged EXCEPT !.progress = RoundProgress(line.ratio[1], line.ratio[2])]
                  ELSE logged
             ELSE IF line.combining
             THEN [logged EXCEPT !.progress = 90]
             ELSE IF line.completed
             THEN [logged EXCEPT !.progress = 100, !.status = "completed"]
             ELSE logged
    ELSE p

\* unshift in the place of push
OnLine_Prepends(p, line) ==
    IF line.marker \/ line.processing
    THEN LET logged == [p EXCEPT !.output = <<Entry(Trim(line.text), <<>>)>> \o @]
         IN  IF line.processing /\ line.slash
             THEN IF line.ratio # <<>>
                  THEN [logged EXCEPT !.progress = RoundProgress(line.ratio[1], line.ratio[2])]
                  ELSE logged
             ELSE IF line.combining
             THEN [logged EXCEPT !.progress = 90]
             ELSE IF line.completed
             THEN [logged EXCEPT !.progress = 100]
             ELSE logged
    ELSE p

\* the body of lines.forEach
OnLine(p, line) ==
    IF line.marker \/ line.processing
    THEN LET logged == [p EXCEPT !.output = Append(@, Entry(Trim(line.text), <<>>))]
         IN  IF line.processing /\ line.slash
             THEN IF line.ratio # <<>>
                  THEN [logged EXCEPT !.progress = RoundProgress(line.ratio[1], line.ratio[2])]
                  ELSE logged
             ELSE IF line.combining
             THEN [logged EXCEPT !.progress = 90]
             ELSE IF line.completed
             THEN [logged EXCEPT !.progress = 100]
             ELSE logged
    ELSE p

RECURSIVE OnLines(_, _)
OnLines(p, lines) ==
    IF lines = <<>> THEN p ELSE OnLines(OnLine(p, Head(lines)), Tail(lines))

\* output.split('\n').filter(line => line.trim())
NonBlank(chunk) == SelectSeq(chunk, LAMBDA line : Trim(line.text) # "")

\* activeProcesses.set(processId, process) of a handler of object ref
Registered(ref) == [activeProcesses EXCEPT ![heap[ref].id] = ref]

\* the handler writes to the record created last instead of its own
StdoutData_LatestRecord(ref, chunk) ==
    /\ Elapse
    /\ children[ref].state = "alive"
    /\ heap' = [heap EXCEPT ![Len(heap)] = OnLines(@, NonBlank(chunk))]
    /\ activeProcesses' = activeProcesses
    /\ last' = Response("stdout", heap[ref].id, 0, "", chunk)
    /\ UNCHANGED <<children, promise, fs, auth>>

\* 'data' is delivered only until 'close': node emits 'close' after the
\* stdio streams of the child have ended
StdoutData(ref, chunk) ==
    /\ Elapse
    /\ children[ref].state = "alive"
    /\ heap' = [heap EXCEPT ![ref] = OnLines(@, NonBlank(chunk))]
    /\ activeProcesses' = IF heap'[ref] # heap[ref] THEN Registered(ref) ELSE activeProcesses
    /\ last' = Response("stdout", heap[ref].id, 0, "", chunk)
    /\ UNCHANGED <<children, promise, fs, auth>>

----------------------------------------------------------------------------
(* pythonProcess.stderr.on('data') *)

ErrChunk(text, errorMarker, moduleNotFound) ==
    [text |-> text, errorMarker |-> errorMarker, moduleNotFound |-> moduleNotFound]

StderrChunks ==
    { ErrChunk("ERROR boom", TRUE, FALSE),
      ErrChunk("ModuleNotFoundError: No module named pandas", FALSE, TRUE),
      ErrChunk("DeprecationWarning", FALSE, FALSE) }

OnStderr(p, chunk) ==
    IF chunk.errorMarker
    THEN [p EXCEPT !.output = Append(@, Entry("X {}", <<chunk.text>>))]
    ELSE IF chunk.moduleNotFound
    THEN [p EXCEPT !.output = @ \o
            << Entry("Missing Python package: {}", <<chunk.text>>),
               Entry("Install with: python3 -m pip install --user selenium pandas openpyxl beautifulsoup4 requests webdriver-manager", <<>>),
               Entry("Or run the install script: ./install.sh", <<>>),
               Entry("Verify installation: python3 -c import pandas", <<>>) >>]
    ELSE p

StderrData(ref, chunk) ==
    /\ Elapse
    /\ children[ref].state = "alive"
    /\ heap' = [heap EXCEPT ![ref] = OnStderr(@, chunk)]
    /\ activeProcesses' = IF heap'[ref] # heap[ref] THEN Registered(ref) ELSE activeProcesses
    /\ last' = Response("stderr", heap[ref].id, 0, "", chunk)
    /\ UNCHANGED <<children, promise, fs, auth>>

----------------------------------------------------------------------------
(* pythonProcess.on('close'), pythonProcess.on('error') *)

\* the code argument of 'close' as interpolated text; "null" when the
\* child was ended by a signal
ExitCodes == {"0", "1", "9009", "null"}

\* `${serviceId}_report_${Date.now()}.pdf`
FallbackName(serviceId, t) ==
    <<serviceId, "_", "r", "e", "p", "o", "r", "t", "_", ToString(t), ".", "p", "d", "f">>

\* every entry with 'report' in its name is taken
ReportFiles_AnyExtension(results) ==
    SelectSeq(results, LAMBDA file : Includes(file, <<"r", "e", "p", "o", "r", "t">>))

\* readdirSync(resultsDir).filter(report && (.pdf || .xlsx || .txt))
ReportFiles(results) ==
    SelectSeq(results, LAMBDA file :
        /\ Includes(file, <<"r", "e", "p", "o", "r", "t">>)
        /\ \/ EndsWith(file, <<".", "p", "d", "f">>)
           \/ EndsWith(file, <<".", "x", "l", "s", "x">>)
           \/ EndsWith(file, <<".", "t", "x", "t">>))

\* the report the script of process ref writes into the results directory
ReportOf(ref) == <<"r", "e", "p", "o", "r", "t", ToString(ref), ".", "t", "x", "t">>

\* only the report of the job's own process is collected
Completed_OwnReportOnly(p, results, t) ==
    LET files == SelectSeq(ReportFiles(results), LAMBDA file : file = ReportOf(p.pythonProcess[1]))
        rf    == IF Len(files) > 0 THEN files ELSE <<FallbackName(p.serviceId, t)>>
    IN  [p EXCEPT
           !.status      = "completed",
           !.endTime     = <<t>>,
           !.progress    = 100,
           !.resultFiles = rf,
           !.output      = Append(@, Entry("{} automation completed successfully!", <<p.serviceId>>))]

\* progress is left where the output put it
Completed_ProgressKept(p, results, t) ==
    LET files == ReportFiles(results)
        rf    == IF Len(files) > 0 THEN files ELSE <<FallbackName(p.serviceId, t)>>
    IN  [p EXCEPT
           !.status      = "completed",
           !.endTime     = <<t>>,
           !.resultFiles = rf,
           !.output      = Append(@, Entry("{} automation completed successfully!", <<p.serviceId>>))]

\* the success branch does not stamp the end of the job
Completed_EndTimeUnset(p, results, t) ==
    LET files == ReportFiles(results)
        rf    == IF Len(files) > 0 THEN files ELSE <<FallbackName(p.serviceId, t)>>
    IN  [p EXCEPT
           !.status      = "completed",
           !.progress    = 100,
           !.resultFiles = rf,
           !.output      = Append(@, Entry("{} automation completed successfully!", <<p.serviceId>>))]

\* the code === 0 branch
Completed(p, results, t) ==
    LET files == ReportFiles(results)
        rf    == IF Len(files) > 0 THEN files ELSE <<FallbackName(p.serviceId, t)>>
    IN  [p EXCEPT
           !.status      = "completed",
           !.endTime     = <<t>>,
           !.progress    = 100,
           !.resultFiles = rf,
           !.output      = @ \o
              << Entry("{} automation completed successfully!", <<p.serviceId>>),
                 IF Len(files) > 0 THEN Entry("Generated: {}", rf[1])
                 ELSE Entry("Report generation completed", <<>>) >>]

\* process.creditsUsed: processData has no such property
CreditsUsed(p) == <<"undefined">>

RefundEntry(p) ==
    Entry("Refunding {} credits due to automation failure", CreditsUsed(p))

\* the else branch of the 'close' handler
ExitFailed(p, code, t) ==
    [p EXCEPT
       !.status  = "failed",
       !.endTime = <<t>>,
       !.output  = @ \o
          << RefundEntry(p),
             Entry("Automation failed with exit code: {}", <<code>>) >>
          \o (IF code = "9009"
              THEN << Entry("Error 9009: Python command not found", <<>>),
                      Entry("Solution: Install Python from https://python.org", <<>>),
                      Entry("Make sure to check Add Python to PATH during installation", <<>>) >>
              ELSE IF code = "1"
              THEN << Entry("Error 1: Python script execution failed", <<>>),
                      Entry("Check if all required packages are installed:", <<>>),
                      Entry("   python3 -m pip install --user selenium pandas openpyxl beautifulsoup4 requests webdriver-manager", <<>>),
                      Entry("Verify pandas: python3 -c import pandas", <<>>),
                      Entry("Run install script: ./install.sh", <<>>) >>
              ELSE <<>>)]

\* resolve() / reject(): only the first settles the promise; a rejection
\* resumes startAutomationScript in its catch block
Rejected(p, settled, message, t) ==
    IF settled = "pending" THEN CatchFailed(p, message, t) ELSE p

Settle(settled, outcome) == IF settled = "pending" THEN outcome ELSE settled

ProcessClose(ref, code) ==
    /\ Elapse
    /\ children[ref].state = "alive"
    /\ children' = [children EXCEPT ![ref].state = "closed"]
    /\ IF code = "0"
       THEN /\ heap' = [heap EXCEPT ![ref] = Completed(@, fs.results, now')]
            /\ promise' = [promise EXCEPT ![ref] = Settle(@, "resolved")]
       ELSE /\ heap' = [heap EXCEPT ![ref] =
                          Rejected(ExitFailed(@, code, now'), promise[ref],
                                   Entry("Python script failed with exit code: {}", <<code>>), now')]
            /\ promise' = [promise EXCEPT ![ref] = Settle(@, "rejected")]
    /\ activeProcesses' = Registered(ref)
    /\ last' = Response("close", heap[ref].id, 0, code, <<>>)
    /\ UNCHANGED <<fs, auth>>

\* error.code of the 'error' event
ErrorCodes == {"ENOENT", "EAGAIN"}

\* the 'error' handler
SpawnFailed(p, errCode, t) ==
    [p EXCEPT
       !.status  = "failed",
       !.endTime = <<t>>,
       !.output  = @ \o
          << Entry("Failed to start Python script: {}", <<"spawn", errCode>>) >>
          \o (IF errCode = "ENOENT"
              THEN << Entry("Python not found in system PATH", <<>>),
                      Entry("Install Python from: https://python.org", <<>>),
                      Entry("Windows: Use python command instead of python3", <<>>) >>
              ELSE <<>>)]

\* 'error' is emitted once, for a child that has not been closed; the
\* 'close' of that child still follows
ProcessError(ref, errCode) ==
    /\ Elapse
    /\ children[ref].state = "alive"
    /\ ~children[ref].errored
    /\ children' = [children EXCEPT ![ref].errored = TRUE]
    /\ heap' = [heap EXCEPT ![ref] =
                  Rejected(SpawnFailed(@, errCode, now'), promise[ref],
                           Entry("{}", <<"spawn", errCode>>), now')]
    /\ promise' = [promise EXCEPT ![ref] = Settle(@, "rejected")]
    /\ activeProcesses' = Registered(ref)
    /\ last' = Response("error", heap[ref].id, 0, errCode, <<>>)
    /\ UNCHANGED <<fs, auth>>

----------------------------------------------------------------------------
(* The server *)

\* nobody is logged in
LoggedOut == [user |-> <<>>, users |-> <<>>, currentUser |-> <<>>]

\* the server has just started listening on one of the trees; the browser
\* holds one of the sessions
InitOn(disks, sessions) ==
    /\ heap = <<>>
    /\ activeProcesses = <<>>
    /\ children = <<>>
    /\ promise = <<>>
    /\ fs \in disks
    /\ now = 0
    /\ last = Response("listen", <<>>, 0, "", <<>>)
    /\ auth \in sessions

Init == InitOn(Disks, {LoggedOut})

Refs == 1..Len(heap)

Next ==
    \/ \E body \in StartBodies, r \in RandomTokens :
          StartJob(body.serviceId, body.hasFiles, body.files, r)
    \/ \E id \in RequestIds : GetJobStatus(id)
    \/ \E id \in RequestIds : StopJob(id)
    \/ \E ref \in Refs, chunk \in StdoutChunks : StdoutData(ref, chunk)
    \/ \E ref \in Refs, chunk \in StderrChunks : StderrData(ref, chunk)
    \/ \E ref \in Refs, code \in ExitCodes : ProcessClose(ref, code)
    \/ \E ref \in Refs, e \in ErrorCodes : ProcessError(ref, e)

Spec == Init /\ [][Next]_vars

----------------------------------------------------------------------------
(* The output handlers on a wider choice of output *)

Processing20of10 == Line("Processing 20/10", FALSE, TRUE, TRUE, <<20, 10>>, FALSE, FALSE)
Processing1of0 == Line("Processing 1/0", FALSE, TRUE, TRUE, <<1, 0>>, FALSE, FALSE)
Processing1of32 == Line("Processing 1/32", FALSE, TRUE, TRUE, <<1, 32>>, FALSE, FALSE)
Info12of50 == Line("INFO 12/50", TRUE, FALSE, TRUE, <<12, 50>>, FALSE, FALSE)
CompletedPlain == Line("completed successfully", FALSE, FALSE, FALSE, <<>>, FALSE, TRUE)

InfoPadded == Line("  INFO Saving report  ", TRUE, FALSE, FALSE, <<>>, FALSE, FALSE)
Spaces == Line("   ", FALSE, FALSE, FALSE, <<>>, FALSE, FALSE)

\* the four lines of one run, delivered in one chunk
FourLines == <<Processing4of10, Processing2of10, GeneratingSummary, CompletedPlain>>

InterpChunks ==
    StdoutChunks \cup
    { <<Processing20of10>>, <<Processing1of0>>, <<Processing1of32>>,
      <<Info12of50>>, <<CompletedPlain>>, FourLines,
      <<InfoPadded>>, <<Spaces, GeneratingSummary, InfoPadded>> }

ErrorAndModuleNotFound ==
    ErrChunk("ERROR ModuleNotFoundError: No module named pandas", TRUE, TRUE)

InterpErrChunks == StderrChunks \cup {ErrorAndModuleNotFound}

NextInterp ==
    \/ \E r \in RandomTokens : StartJob("pdf-excel-converter", TRUE, <<FileA>>, r)
    \/ \E ref \in Refs, chunk \in InterpChunks : StdoutData(ref, chunk)
    \/ \E ref \in Refs, chunk \in InterpErrChunks : StderrData(ref, chunk)

SpecInterp == Init /\ [][NextInterp]_vars

----------------------------------------------------------------------------
(* The start handler on a wider choice of uploads and file lists *)

Stored2X == [name |-> <<"x", "-", "a", ".", "c">>, mtime |-> 2]   \* as recent as 2-a.c
Stored3B == [name |-> <<"3", "-", "b", ".", "c">>, mtime |-> 3]   \* upload of "b.c"
FileN == [name |-> <<"n", ".", "c">>]                             \* never uploaded

UploadPool == {Stored1A, Stored2A, Stored2X, Stored3B}

\* the listings of the uploads directory: up to MaxUploads of the pool, in
\* any order
MaxUploads == 3

UploadListings ==
    { u \in UNION { [1..n -> UploadPool] : n \in 0..MaxUploads } :
        \A i, j \in DOMAIN u : i # j => u[i] # u[j] }

ResolveDisks == { Disk(u, <<>>, {}) : u \in UploadListings }

ResolveBodies ==
    { StartRequest(s, TRUE, f) :
        s \in {"pdf-excel-converter", "example-automation"},
        f \in {<<FileA>>, <<FileB>>, <<FileN>>, <<FileA, FileN>>, <<FileN, FileA>>, <<FileB, FileA>>} }

InitResolve == InitOn(ResolveDisks, {LoggedOut})

NextResolve ==
    \/ \E body \in ResolveBodies, r \in RandomTokens :
          StartJob(body.serviceId, body.hasFiles, body.files, r)
    \/ \E id \in RequestIds : GetJobStatus(id)

SpecResolve == InitResolve /\ [][NextResolve]_vars

----------------------------------------------------------------------------
(* GET /api/automation/download/:processId, GET /api/files/:processId/:filename
   and the results directory *)

Range(seq) == { seq[i] : i \in DOMAIN seq }

\* process.resultFiles.includes(filename)
Listed(p, filename) == filename \in Range(p.resultFiles)

\* the text the files route makes up for a .txt or .log name
LogContent(p, processId) ==
    [ output |-> p.output, processId |-> processId, serviceId |-> p.serviceId,
      status |-> p.status, startTime |-> p.startTime, endTime |-> p.endTime,
      filesProcessed |-> Len(p.files) ]

\* what the files route sends: a file of the disk or a text
Sent(filename, kind, content) == [filename |-> filename, kind |-> kind, content |-> content]

\* the answer of the files route
FilesRoute(processId, filename) ==
    IF Get(processId) = <<>> \/ ~Listed(Snapshot(processId), filename)
    THEN Response("files", processId, 404, "File not found", Sent(filename, "json", <<>>))
    ELSE IF filename \in Range(fs.results)
    THEN Response("files", processId, 200, "", Sent(filename, "download", <<"r", "/">> \o filename))
    ELSE IF filename \in fs.pdfs
    THEN Response("files", processId, 200, "",
                  Sent(filename, "download", <<"r", "/", "pdfs", "/">> \o filename))
    ELSE IF EndsWith(filename, <<".", "t", "x", "t">>) \/ EndsWith(filename, <<".", "l", "o", "g">>)
    THEN Response("files", processId, 200, "",
                  Sent(filename, "text", LogContent(Snapshot(processId), processId)))
    ELSE Response("files", processId, 404, "File not found in results directory",
                  Sent(filename, "json", <<>>))

FetchResultFile(processId, filename) ==
    /\ Elapse
    /\ last' = FilesRoute(processId, filename)
    /\ UNCHANGED <<heap, activeProcesses, children, promise, fs, auth>>

\* the answer of the download route
DownloadRoute(processId) ==
    IF Get(processId) = <<>> \/ Snapshot(processId).status # "completed"
    THEN Response("download", processId, 404, "Process not found or not completed", <<>>)
    ELSE Response("download", processId, 200, "",
                  [ resultFiles  |-> Snapshot(processId).resultFiles,
                    downloadUrls |-> Snapshot(processId).resultFiles,
                    previewUrls  |-> SelectSeq(Snapshot(processId).resultFiles,
                                        LAMBDA file : EndsWith(file, <<".", "p", "d", "f">>)) ])

DownloadResults(processId) ==
    /\ Elapse
    /\ last' = DownloadRoute(processId)
    /\ UNCHANGED <<heap, activeProcesses, children, promise, fs, auth>>

\* the running script writes its report: not a handler of the server, no
\* Date.now() is read
WritesReport(ref) ==
    /\ children[ref].state = "alive"
    /\ ReportOf(ref) \notin Range(fs.results)
    /\ fs' = [fs EXCEPT !.results = Append(@, ReportOf(ref))]
    /\ last' = Response("write", heap[ref].id, 0, "", ReportOf(ref))
    /\ UNCHANGED <<heap, activeProcesses, children, promise, now, auth>>

\* a delivered file is cleared out of the results directory
RemoveResult(filename) ==
    /\ filename \in Range(fs.results)
    /\ fs' = [fs EXCEPT !.results = SelectSeq(@, LAMBDA file : file # filename)]
    /\ last' = Response("unlink", <<>>, 0, "", filename)
    /\ UNCHANGED <<heap, activeProcesses, children, promise, now, auth>>

ReportCsv  == <<"r", "e", "p", "o", "r", "t", ".", "c", "s", "v">>
ReportXlsx == <<"r", "e", "p", "o", "r", "t", ".", "x", "l", "s", "x">>
NotesTxt   == <<"n", "o", "t", "e", "s", ".", "t", "x", "t">>

ResultListings ==
    { <<>>, <<NotesTxt, ReportCsv>>, <<ReportXlsx, NotesTxt, ReportPdf, ReportCsv>> }

FileDisks ==
    { Disk(<<Stored1A, Stored2A>>, r, d) : r \in ResultListings, d \in {{}, {ReportOf(1)}} }

\* the names some job lists as its results
ListedNames == UNION { Range(heap[ref].resultFiles) : ref \in 1..Len(heap) }

\* the names a client asks for: the listed ones and one that is on no list
FetchNames == {ReportCsv} \cup ListedNames

InitFiles == InitOn(FileDisks, {LoggedOut})

NextFiles ==
    \/ \E r \in RandomTokens : StartJob("pdf-excel-converter", TRUE, <<FileA>>, r)
    \/ \E id \in RequestIds : StopJob(id)
    \/ \E ref \in 1..Len(heap), code \in {"0", "1"} : ProcessClose(ref, code)
    \/ \E ref \in 1..Len(heap) : WritesReport(ref)
    \/ \E filename \in ListedNames : RemoveResult(filename)
    \/ \E id \in RequestIds, filename \in FetchNames : FetchResultFile(id, filename)
    \/ \E id \in RequestIds : DownloadResults(id)

SpecFiles == InitFiles /\ [][NextFiles]_vars

----------------------------------------------------------------------------
(* AuthProvider of contexts/AuthContext.tsx: the credit ledger of the browser *)

MaxCredits == 4    \* credits a user starts with
MaxAmount  == 5    \* credits a call asks for

\* the fields of User the ledger reads or writes
User(id, credits, isAdmin) == [id |-> id, credits |-> credits, isAdmin |-> isAdmin]

Member(credits) == User("user_1", credits, FALSE)
OtherMember == User("user_2", 2, FALSE)
Admin == User("admin_1", 1, TRUE)

\* the state of the provider: user, users and the currentUser item of
\* localStorage, <<>> for null
Session(user, users) == [user |-> user, users |-> users, currentUser |-> user]

Sessions ==
    { Session(u, <<Member(c), OtherMember, Admin>>) :
        c \in 0..MaxCredits, u \in {<<>>, <<OtherMember>>, <<Admin>>} }
    \cup { Session(<<Member(c)>>, <<Member(c), OtherMember, Admin>>) : c \in 0..MaxCredits }

\* { ...user, ...updates }
Spread(user, updates) ==
    [k \in DOMAIN user \cup DOMAIN updates |->
        IF k \in DOMAIN updates THEN updates[k] ELSE user[k]]

\* updateUser(updates)
UpdateUser(a, updates) ==
    IF a.user # <<>>
    THEN LET updatedUser == Spread(a.user[1], updates)
         IN  [ user        |-> <<updatedUser>>,
               users       |-> [i \in DOMAIN a.users |->
                                   IF a.users[i].id = a.user[1].id THEN updatedUser
                                   ELSE a.users[i]],
               currentUser |-> <<updatedUser>> ]
    ELSE a

\* the balance is not looked at
Deducted_NoBalanceCheck(a, credits) ==
    IF a.user # <<>> /\ a.user[1].isAdmin THEN a
    ELSE IF a.user # <<>>
    THEN UpdateUser(a, [a.user[1] EXCEPT !.credits = @ - credits])
    ELSE a

\* the provider after deductCredits(credits)
Deducted(a, credits) ==
    IF a.user # <<>> /\ a.user[1].isAdmin THEN a
    ELSE IF a.user # <<>> /\ a.user[1].credits >= credits
    THEN UpdateUser(a, [a.user[1] EXCEPT !.credits = @ - credits])
    ELSE a

\* what deductCredits(credits) returns
DeductReturns(a, credits) ==
    IF a.user # <<>> /\ a.user[1].isAdmin THEN "true"
    ELSE IF a.user # <<>> /\ a.user[1].credits >= credits THEN "true"
    ELSE "false"

\* a call of deductCredits from the render that shows the provider's state
DeductCredits(credits) ==
    /\ auth' = Deducted(auth, credits)
    /\ last' = Response("deductCredits", <<>>, 0, DeductReturns(auth, credits), <<credits>>)
    /\ UNCHANGED <<heap, activeProcesses, children, promise, fs, now>>

\* logout()
Logout ==
    /\ auth.user # <<>>
    /\ auth' = [auth EXCEPT !.user = <<>>, !.currentUser = <<>>]
    /\ last' = Response("logout", <<>>, 0, "", <<>>)
    /\ UNCHANGED <<heap, activeProcesses, children, promise, fs, now>>

InitLedger == InitOn({Disk(<<>>, <<>>, {})}, Sessions)

NextLedger ==
    \/ \E credits \in 0..MaxAmount : DeductCredits(credits)
    \/ Logout

SpecLedger == InitLedger /\ [][NextLedger]_vars

----------------------------------------------------------------------------
(* The server with processes that end *)

\* start requests that pass validation: one that launches, one without
\* upload, one without script
LiveBodies ==
    { StartRequest("pdf-excel-converter", TRUE, <<FileA>>),
      StartRequest("pdf-excel-converter", TRUE, <<FileB>>),
      StartRequest("example-automation", TRUE, <<FileA>>) }

\* the processes that have not delivered their 'close'
Alive(ch) == { ref \in DOMAIN ch : ch[ref].state = "alive" }

\* MaxNow cuts every behaviour off; a handler runs only when that leaves a
\* millisecond for the 'close' of every process that is still to end
TimeToClose == now' + Cardinality(Alive(children')) <= MaxNow

NextLive ==
    \/ \E body \in LiveBodies, r \in RandomTokens :
          StartJob(body.serviceId, body.hasFiles, body.files, r) /\ TimeToClose
    \/ \E id \in RequestIds : StopJob(id) /\ TimeToClose
    \/ \E ref \in Refs : StdoutData(ref, <<Processing4of10>>) /\ TimeToClose
    \/ \E ref \in Refs : StderrData(ref, ErrChunk("ERROR boom", TRUE, FALSE)) /\ TimeToClose
    \/ \E ref \in Refs, e \in ErrorCodes : ProcessError(ref, e) /\ TimeToClose
    \/ \E ref \in Refs, code \in ExitCodes : ProcessClose(ref, code)

\* node emits 'close' for every child process it has spawned
ClosesDelivered ==
    \A ref \in 1..MaxJobs :
        WF_vars(ref \in Refs /\ \E code \in ExitCodes : ProcessClose(ref, code))

SpecLive == Init /\ [][NextLive]_vars /\ ClosesDelivered

----------------------------------------------------------------------------
(* Reading a behaviour: which handler a step ran, what a log tells *)

\* the step is a stop request answered with 200 for object ref
StopStep(ref) ==
    /\ last'.op = "stop"
    /\ last'.http = 200
    /\ activeProcesses[last'.id] = ref

\* the refund entries of a log
Refunds(p) == SelectSeq(p.output, LAMBDA e : e.msg = RefundEntry(p).msg)

\* the entries the lifecycle transitions write
TransitionMessages ==
    { "Process stopped by user",
      "Automation failed: {}",
      "Automation failed with exit code: {}",
      "Failed to start Python script: {}",
      "{} automation completed successfully!" }

\* the first transition the log records is a stop: the job was cancelled
\* while it was running
CancelledWhileRunning(p) ==
    \E i \in DOMAIN p.output :
        /\ p.output[i].msg = "Process stopped by user"
        /\ \A k \in 1..(i - 1) : p.output[k].msg \notin TransitionMessages

----------------------------------------------------------------------------
(* Claims *)

\* C1: once the status of a job is completed, failed or stopped, no later
\* handler run of any kind changes it.
C1_TerminalStatusFrozen ==
    [][\A ref \in Refs :
          heap[ref].status \in Terminal => heap'[ref].status = heap[ref].status]_vars

\* C2: a stop request for a running job sends SIGTERM to the job's process
\* and in the same handler run sets status stopped and endTime, so that the
\* status snapshot of the job reads stopped while the child is not closed yet.
C2_CancelRunningStopsAtOnce ==
    [][\A ref \in Refs :
          (StopStep(ref) /\ heap[ref].status = "running") =>
              /\ heap[ref].pythonProcess = <<ref>>
              /\ children'[ref].sigterm = children[ref].sigterm + 1
              /\ children'[ref].state = "alive"
              /\ heap'[ref].status = "stopped"
              /\ heap'[ref].endTime = <<now'>>
              /\ heap'[activeProcesses'[last'.id]].status = "stopped"]_vars

\* a stop request has just been answered for a job that had seen no other
\* transition, and its child has not been closed
C2_Witness ==
    \E ref \in Refs :
        /\ last.op = "stop" /\ last.http = 200
        /\ activeProcesses[last.id] = ref
        /\ heap[ref].status = "stopped"
        /\ children[ref].state = "alive" /\ children[ref].sigterm = 1
        /\ promise[ref] = "pending" /\ ~children[ref].errored

\* C3: a stop request for a job that is already completed, failed or stopped
\* is acknowledged and changes nothing: the record stays as it was and no
\* signal is sent.
C3_CancelTerminalIsNoOp ==
    [][\A ref \in Refs :
          (StopStep(ref) /\ heap[ref].status \in Terminal) =>
              /\ heap'[ref] = heap[ref]
              /\ children' = children]_vars

\* C4: while a job is running its progress never decreases.
C4_ProgressNonDecreasing ==
    [][\A ref \in Refs :
          heap[ref].status = "running" => heap'[ref].progress >= heap[ref].progress]_vars

\* C5: in every reachable state a completed job has progress 100 and at
\* least one result file.
C5_CompletedIsFull ==
    \A ref \in Refs :
        heap[ref].status = "completed" =>
            heap[ref].progress = 100 /\ heap[ref].resultFiles # <<>>

\* a job completed after its output had reported 4 of 10 items
C5_Witness ==
    \E ref \in Refs :
        /\ heap[ref].status = "completed"
        /\ \E i \in DOMAIN heap[ref].output : heap[ref].output[i].msg = Processing4of10.text

\* C6: every failed job has had exactly one refund.
C6_FailedRefundedOnce ==
    \A ref \in Refs :
        heap[ref].status = "failed" => Len(Refunds(heap[ref])) = 1

\* C7: a job cancelled while running never gets a refund, whatever its
\* process delivers afterwards.
C7_CancelledNeverRefunded ==
    \A ref \in Refs :
        CancelledWhileRunning(heap[ref]) => Refunds(heap[ref]) = <<>>

\* C8: the record holds a process handle exactly while its status is running.
C8_HandleIffRunning ==
    \A ref \in Refs :
        heap[ref].pythonProcess # <<>> <=> heap[ref].status = "running"

\* C9: only a completed job has result files.
C9_ResultsOnlyWhenCompleted ==
    \A ref \in Refs :
        heap[ref].resultFiles # <<>> => heap[ref].status = "completed"

\* the start request of the step was refused with message m and left the
\* registry, the records and the processes as they were
Refused(m) ==
    /\ last'.http = 400
    /\ last'.message = m
    /\ UNCHANGED <<heap, activeProcesses, children, promise>>

C11_UnknownIdNotFound ==
    [][(last'.op \in {"status", "stop"} /\ last'.id \notin DOMAIN activeProcesses) =>
          /\ last'.http = 404
          /\ last'.message = "Process not found"
          /\ UNCHANGED <<heap, activeProcesses, children, promise>>]_vars

\* a stop request for an unknown id has just been refused while a job with
\* a live process is registered
C11_Witness ==
    /\ last.op = "stop" /\ last.http = 404
    /\ last.id \notin DOMAIN activeProcesses
    /\ \E ref \in Refs : children[ref].state = "alive" /\ children[ref].sigterm = 0

\* the start request of the step carries files and a service of the catalog
PassesValidation(body) ==
    body.hasFiles /\ body.files # <<>> /\ body.serviceId \in DOMAIN serviceScripts

\* no upload has the stripped name of the first file in its name
NoUploadFor(body) ==
    \A i \in DOMAIN fs.uploads :
        ~Includes(fs.uploads[i].name, StripExt(body.files[1].name))

\* the script of the service is not in automation_scripts
NoScriptFor(body) == serviceScripts[body.serviceId] \notin fs.scripts

\* the record is failed, has its endTime and a log entry with this text
\* whose interpolated value contains the cause
FailedWithCause(p, msg, cause) ==
    /\ p.status = "failed"
    /\ p.endTime # <<>>
    /\ \E i \in DOMAIN p.output :
          p.output[i].msg = msg /\ Includes(p.output[i].arg, cause)

\* C12: a start request that passes validation is answered 200 with the
\* process id, also when no input file matches or the script is missing;
\* such an error, like a spawn error or a non-zero exit later, leaves the
\* record failed with endTime set and a log entry naming the cause, which
\* the status snapshot shows.
C12_LaunchErrorsRecorded ==
    [][/\ (last'.op = "start" /\ PassesValidation(last'.body)) =>
            /\ last'.http = 200
            /\ Len(heap') = Len(heap) + 1
            /\ last'.id = heap'[Len(heap')].id
            /\ activeProcesses'[last'.id] = Len(heap')
            /\ NoUploadFor(last'.body) =>
                  /\ FailedWithCause(heap'[Len(heap')], "Automation failed: {}",
                                     last'.body.files[1].name)
                  /\ children'[Len(heap')].state = "none"
            /\ (~NoUploadFor(last'.body) /\ NoScriptFor(last'.body)) =>
                  /\ FailedWithCause(heap'[Len(heap')], "Automation failed: {}",
                                     <<serviceScripts[last'.body.serviceId]>>)
                  /\ children'[Len(heap')].state = "none"
       /\ \A ref \in Refs :
            /\ (last'.op = "error" /\ last'.id = heap[ref].id) =>
                  /\ last'.http = 0
                  /\ FailedWithCause(heap'[ref], "Failed to start Python script: {}",
                                     <<last'.message>>)
            /\ (last'.op = "close" /\ last'.id = heap[ref].id /\ last'.message # "0") =>
                  /\ last'.http = 0
                  /\ FailedWithCause(heap'[ref], "Automation failed with exit code: {}",
                                     <<last'.message>>)]_vars

\* a start request for a service whose script is missing has just been
\* answered 200 and its record is failed
C12_Witness ==
    /\ last.op = "start" /\ last.http = 200
    /\ last.body.serviceId = "example-automation"
    /\ heap[activeProcesses[last.id]].status = "failed"
    /\ heap[activeProcesses[last.id]].endTime = <<now>>

IsPrefix(old, new) ==
    Len(old) <= Len(new) /\ SubSeq(new, 1, Len(old)) = old

\* C14: a stdout or stderr handler run, also one for a job that was
\* cancelled before, at most appends to the log of its job: status, endTime
\* and resultFiles of the record stay, no process is signalled or closed
\* and no promise is settled.
C14_LateOutputTolerated ==
    [][last'.op \in {"stdout", "stderr"} =>
          /\ UNCHANGED <<children, promise>>
          /\ \A ref \in Refs :
                /\ heap'[ref].status = heap[ref].status
                /\ heap'[ref].endTime = heap[ref].endTime
                /\ heap'[ref].resultFiles = heap[ref].resultFiles
                /\ IsPrefix(heap[ref].output, heap'[ref].output)]_vars

\* a job cancelled while running has just logged a 'completed
\* successfully' line of its process and is still stopped
C14_Witness ==
    \E ref \in Refs :
        /\ last.op = "stdout" /\ last.id = heap[ref].id
        /\ last.body = <<InfoCompleted>>
        /\ CancelledWhileRunning(heap[ref])
        /\ heap[ref].output[Len(heap[ref].output)].msg = InfoCompleted.text
        /\ heap[ref].status = "stopped"

\* C15: stdout lines that arrive for a job that is completed, failed or
\* stopped leave its progress as it was at the transition.
C15_TerminalProgressFrozen ==
    [][last'.op = "stdout" =>
          \A ref \in Refs :
              heap[ref].status \in Terminal => heap'[ref].progress = heap[ref].progress]_vars

\* C16: the progress of every job is an integer from 0 to 100, whatever
\* lines its process writes.
C16_ProgressInRange ==
    \A ref \in Refs : heap[ref].progress \in 0..100

\* the step is a stdout handler run for object ref on a chunk of one line
OneLineStep(ref) ==
    /\ last'.op = "stdout"
    /\ last'.id = heap[ref].id
    /\ Len(last'.body) = 1

\* round(current / total * 80), halves rounded up
RoundedShare(current, total) ==
    IF total = 0 THEN (IF current = 0 THEN NaN ELSE Infinity)
    ELSE CHOOSE n \in 0..(80 * current + 1) :
            /\ 2 * total * n <= 160 * current + total
            /\ 160 * current + total < 2 * total * (n + 1)

C18_PhaseLinesSetProgress ==
    [][\A ref \in Refs :
          /\ OneLineStep(ref) =>
                LET line == last'.body[1]
                IN  /\ (line.ratio = <<>> /\ line.combining /\ heap[ref].progress <= 90)
                          => heap'[ref].progress = 90
                    /\ (line.ratio = <<>> /\ ~line.combining /\ line.completed)
                          => heap'[ref].progress = 100
          /\ (/\ last'.op = "stdout" /\ last'.id = heap[ref].id
              /\ last'.body = FourLines /\ heap[ref].progress = 0)
                => heap'[ref].progress = 100]_vars

\* the remediation entry of the stderr handler
InstallHint ==
    "Install with: python3 -m pip install --user selenium pandas openpyxl beautifulsoup4 requests webdriver-manager"

\* the entries a step appended to the log of object ref
Appended(ref) ==
    SubSeq(heap'[ref].output, Len(heap[ref].output) + 1, Len(heap'[ref].output))

\* C19: stderr output with an error marker is logged as an error entry;
\* stderr output with ModuleNotFoundError is logged together with the
\* install hint, also when it carries an error marker as well; any other
\* stderr output adds nothing to the log.
C19_StderrClassified ==
    [][\A ref \in Refs :
          (last'.op = "stderr" /\ last'.id = heap[ref].id) =>
              LET chunk == last'.body
              IN  /\ IsPrefix(heap[ref].output, heap'[ref].output)
                  /\ (chunk.errorMarker /\ ~chunk.moduleNotFound) =>
                        Appended(ref) = <<Entry("X {}", <<chunk.text>>)>>
                  /\ chunk.moduleNotFound =>
                        /\ \E i \in DOMAIN Appended(ref) :
                              Appended(ref)[i].arg = <<chunk.text>>
                        /\ \E i \in DOMAIN Appended(ref) :
                              Appended(ref)[i].msg = InstallHint
                  /\ (~chunk.errorMarker /\ ~chunk.moduleNotFound) =>
                        Appended(ref) = <<>>]_vars

\* the lines of a chunk that reach the log, in the order of the chunk
LoggedLines(chunk) ==
    SelectSeq(chunk, LAMBDA line : line.text # "" /\ (line.marker \/ line.processing))

\* C20: every handler run leaves the log of every job as a prefix of its
\* new log, and a stdout handler run appends the texts of the logged lines
\* of its chunk in the order of the chunk.
C20_LogAppendOnlyInOrder ==
    [][\A ref \in Refs :
          /\ IsPrefix(heap[ref].output, heap'[ref].output)
          /\ (last'.op = "stdout" /\ last'.id = heap[ref].id) =>
                /\ Len(Appended(ref)) = Len(LoggedLines(last'.body))
                /\ \A i \in DOMAIN Appended(ref) :
                      Appended(ref)[i] = Entry(LoggedLines(last'.body)[i].text, <<>>)]_vars

\* a chunk of two logged lines has just been appended, in its order, to the
\* log of a job that was stopped before
C20_Witness ==
    \E ref \in Refs :
        LET log == heap[ref].output
        IN  /\ last.op = "stdout" /\ last.id = heap[ref].id
            /\ last.body = <<Processing4of10, InfoGenerating>>
            /\ log[Len(log) - 2].msg = "Process stopped by user"
            /\ log[Len(log) - 1].msg = Processing4of10.text
            /\ log[Len(log)].msg = InfoGenerating.text

\* the uploads whose name contains the name of the file without extension
Candidates(file) ==
    { i \in DOMAIN fs.uploads : Includes(fs.uploads[i].name, StripExt(file.name)) }

\* the candidates no other candidate is more recent than
Newest(file) ==
    { i \in Candidates(file) :
        \A j \in Candidates(file) : fs.uploads[j].mtime <= fs.uploads[i].mtime }

\* the log has an entry with this text and this interpolated value
Logged(p, msg, arg) ==
    \E i \in DOMAIN p.output : p.output[i].msg = msg /\ p.output[i].arg = arg

\* C21: the input file of a started job is resolved to an upload whose name
\* contains the name of the first file without its extension and that no
\* other such upload is more recent than; when no upload matches, the job
\* is failed by an 'Input file not found' error and no process is spawned.
C21_NewestMatchingUpload ==
    [][(last'.op = "start" /\ last'.http = 200) =>
          LET ref   == Len(heap')
              p     == heap'[ref]
              first == last'.body.files[1]
          IN  /\ Candidates(first) = {} =>
                    /\ p.status = "failed"
                    /\ Logged(p, "Automation failed: {}",
                              <<"Input file not found: {}">> \o first.name)
                    /\ children'[ref].state = "none"
                    /\ p.pythonProcess = <<>>
              /\ Candidates(first) # {} =>
                    /\ ~Logged(p, "Automation failed: {}",
                               <<"Input file not found: {}">> \o first.name)
                    /\ children'[ref].state = "alive" =>
                          \E i \in Newest(first) :
                              /\ children'[ref].args[2] = <<"u", "/">> \o fs.uploads[i].name
                              /\ Logged(p, "File path: {}", children'[ref].args[2])]_vars

\* a job has just been launched on 2-a.c, listed after the older 1-a.c and
\* after the more recent upload of another file
C21_Witness ==
    /\ last.op = "start" /\ last.http = 200
    /\ fs.uploads = <<Stored1A, Stored3B, Stored2A>>
    /\ children[Len(heap)].state = "alive"
    /\ children[Len(heap)].args[2] = <<"u", "/">> \o Stored2A.name

\* the extension of a file name: from its last dot on
Extension(name) ==
    IF \A i \in DOMAIN name : name[i] # "." THEN <<>>
    ELSE SubSeq(name, CHOOSE i \in DOMAIN name :
                          name[i] = "." /\ \A k \in (i + 1)..Len(name) : name[k] # ".",
                Len(name))

\* a name with 'report' in it and an extension of the allow-list
IsArtifact(name) ==
    /\ Includes(name, <<"r", "e", "p", "o", "r", "t">>)
    /\ Extension(name) \in { <<".", "p", "d", "f">>, <<".", "x", "l", "s", "x">>,
                             <<".", "t", "x", "t">> }

\* the step is the 'close' handler of object ref
CloseStep(ref) == last'.op = "close" /\ last'.id = heap[ref].id

\* C22: when a process exits with code 0 the resultFiles of its job become
\* the entries of the results directory with 'report' in the name and an
\* extension of .pdf, .xlsx, .txt, in listing order; when there is none
\* they become one made-up name with the service id and the time in it.
C22_ResultsCollected ==
    [][\A ref \in Refs :
          (CloseStep(ref) /\ last'.message = "0") =>
              LET artifacts == SelectSeq(fs.results, IsArtifact)
                  rf        == heap'[ref].resultFiles
              IN  /\ artifacts # <<>> => rf = artifacts
                  /\ artifacts = <<>> =>
                        /\ Len(rf) = 1
                        /\ rf[1][1] = heap[ref].serviceId
                        /\ ToString(now') \in Range(rf[1])
                        /\ rf[1] \notin Range(fs.results)]_vars

\* a job has just completed on a directory that lists, between its
\* artifacts, a text file that is no report and a report that is a .csv
C22_Witness ==
    \E ref \in Refs :
        /\ last.op = "close" /\ last.id = heap[ref].id /\ last.message = "0"
        /\ fs.results = <<ReportXlsx, NotesTxt, ReportPdf, ReportCsv, ReportOf(ref)>>
        /\ heap[ref].resultFiles = <<ReportXlsx, ReportPdf, ReportOf(ref)>>

\* the file is in the results directory or in results/pdfs
OnDisk(filename) == filename \in Range(fs.results) \/ filename \in fs.pdfs

\* a name that ends in .txt or .log
LogLike(filename) ==
    EndsWith(filename, <<".", "t", "x", "t">>) \/ EndsWith(filename, <<".", "l", "o", "g">>)

\* C23: a request for a result file is refused for an id that is not in the
\* registry, for every job whose status is not completed, whatever its
\* resultFiles are, and for a name that is not listed or not on disk; only a
\* listed .txt or .log name that is not on disk is answered with a text
\* made of the job's log.
C23_FetchRefusals ==
    [][last'.op = "files" =>
          LET name == last'.body.filename
          IN  /\ last'.id \notin DOMAIN activeProcesses => last'.http = 404
              /\ last'.id \in DOMAIN activeProcesses =>
                    LET p == heap[activeProcesses[last'.id]]
                    IN  /\ p.status # "completed" => last'.http = 404
                        /\ (p.status = "completed" /\ ~Listed(p, name)) => last'.http = 404
                        /\ (p.status = "completed" /\ Listed(p, name) /\ ~OnDisk(name)) =>
                              IF LogLike(name)
                              THEN /\ last'.http = 200
                                   /\ last'.body.kind = "text"
                                   /\ last'.body.content.output = p.output
                              ELSE last'.http = 404]_vars

\* C24: after every handler run, every job has its endTime exactly when its
\* status is completed, failed or stopped: a running job has none, a job
\* created failed has one, and every change of status stamps the time of
\* the handler.
C24_EndTimeIffTerminal ==
    [][/\ \A ref \in 1..Len(heap') :
             /\ heap'[ref].endTime # <<>> <=> heap'[ref].status \in Terminal
             /\ heap'[ref].status = "running" <=> heap'[ref].endTime = <<>>
             /\ (ref > Len(heap) /\ heap'[ref].status \in Terminal) =>
                   heap'[ref].endTime = <<now'>>
       /\ \A ref \in Refs :
             heap'[ref].status # heap[ref].status =>
                /\ heap'[ref].status \in Terminal
                /\ heap'[ref].endTime = <<now'>>]_vars

\* a running job next to one that was stopped and whose process then
\* exited with code 0
C24_Witness ==
    \E r1, r2 \in Refs :
        /\ heap[r1].status = "running" /\ heap[r1].endTime = <<>>
        /\ CancelledWhileRunning(heap[r2])
        /\ heap[r2].status = "completed" /\ heap[r2].endTime = <<now>>

\* the lines of a chunk with an informational marker: INFO, one of the
\* glyphs of the guide, or the word Processing
Marked(chunk) == SelectSeq(chunk, LAMBDA line : line.marker \/ line.processing)

Balances(a) ==
    { a.users[i].credits : i \in DOMAIN a.users }
    \cup { a.user[i].credits : i \in DOMAIN a.user }
    \cup { a.currentUser[i].credits : i \in DOMAIN a.currentUser }

\* C26: deductCredits(n) returns true for a logged-in member with at least
\* n credits and lowers the credits of that user, and of no other, by n; it
\* returns false and changes nothing for a member with less, and when
\* nobody is logged in; it returns true and changes nothing for an admin.
\* No balance is ever negative.
C26_DeductCredits ==
    [][last'.op = "deductCredits" =>
          LET n == last'.body[1]
          IN  /\ auth.user = <<>> => (last'.message = "false" /\ auth' = auth)
              /\ auth.user # <<>> =>
                    LET u == auth.user[1]
                    IN  /\ u.isAdmin => (last'.message = "true" /\ auth' = auth)
                        /\ (~u.isAdmin /\ u.credits < n) =>
                              (last'.message = "false" /\ auth' = auth)
                        /\ (~u.isAdmin /\ u.credits >= n) =>
                              /\ last'.message = "true"
                              /\ auth'.user = <<User(u.id, u.credits - n, FALSE)>>
                              /\ auth'.currentUser = auth'.user
                              /\ Len(auth'.users) = Len(auth.users)
                              /\ \A i \in DOMAIN auth.users :
                                    auth'.users[i] =
                                       IF auth.users[i].id = u.id THEN auth'.user[1]
                                       ELSE auth.users[i]
              /\ \A c \in Balances(auth') : c >= 0]_vars

\* a member has just spent the last credits: deductCredits(2) with 2
\* credits returned true
C26_Witness ==
    /\ last.op = "deductCredits" /\ last.message = "true" /\ last.body = <<2>>
    /\ auth.user = <<Member(0)>>
    /\ auth.users[1] = Member(0)

\* object ref exists and is completed, failed or stopped, with its endTime
Ended(ref) ==
    /\ ref \in Refs
    /\ heap[ref].status \in Terminal
    /\ heap[ref].endTime # <<>>

\* C27: when every spawned process delivers its 'close', every job that a
\* start request created is eventually completed, failed or stopped and has
\* its endTime; a job whose input file or script is missing is failed by
\* the start handler itself, without a process.
C27_EveryJobEnds ==
    /\ \A ref \in 1..MaxJobs : [](ref \in Refs => <>Ended(ref))
    /\ [][(last'.op = "start" /\ last'.http = 200 /\
           (NoUploadFor(last'.body) \/ NoScriptFor(last'.body))) =>
              /\ heap'[Len(heap')].status = "failed"
              /\ heap'[Len(heap')].endTime = <<now'>>
              /\ children'[Len(heap')].state = "none"]_vars

\* a job whose process wrote output and exited with code 0 next to a job
\* that was failed at its start
C27_Witness ==
    \E r1, r2 \in Refs :
        /\ children[r1].state = "closed" /\ heap[r1].status = "completed"
        /\ \E i \in DOMAIN heap[r1].output : heap[r1].output[i].msg = Processing4of10.text
        /\ children[r2].state = "none" /\ heap[r2].status = "failed"

\* the failure and stop entries of a log
EndEntries(p) ==
    SelectSeq(p.output, LAMBDA e :
        e.msg \in { "Process stopped by user",
                    "Automation failed: {}",
                    "Automation failed with exit code: {}",
                    "Failed to start Python script: {}" })

\* C28: the endTime of a job is written once: a handler run that finds it
\* set leaves it and adds no failure or stop entry to the log, and no log
\* ever has a second failure or stop entry.
C28_EndTimeWrittenOnce ==
    [][/\ \A ref \in Refs :
             heap[ref].endTime # <<>> =>
                /\ heap'[ref].endTime = heap[ref].endTime
                /\ EndEntries(heap'[ref]) = EndEntries(heap[ref])
       /\ \A ref \in 1..Len(heap') : Len(EndEntries(heap'[ref])) <= 1]_vars

\* the script of the service is in place and some upload matches the file
Launchable(serviceId, file) ==
    serviceScripts[serviceId] \in fs.scripts /\ Candidates(file) # {}

\* C29: a start request with several files keeps them all in the record
\* but looks only at the first: the job is launched exactly when the first
\* file has an upload and the script is there, whatever the other files
\* are, and the process gets the script path, the path resolved for the
\* first file and --headless, nothing else.
C29_OnlyFirstFileUsed ==
    [][(last'.op = "start" /\ last'.http = 200) =>
          LET ref   == Len(heap')
              p     == heap'[ref]
              first == last'.body.files[1]
              args  == children'[ref].args
          IN  /\ p.files = last'.body.files
              /\ Launchable(last'.body.serviceId, first) =>
                    /\ p.status = "running"
                    /\ children'[ref].state = "alive"
                    /\ Len(args) = 3
                    /\ args[1] = <<"s", "/", serviceScripts[last'.body.serviceId]>>
                    /\ \E i \in Newest(first) : args[2] = <<"u", "/">> \o fs.uploads[i].name
                    /\ args[3] = <<"--headless">>
              /\ ~Launchable(last'.body.serviceId, first) =>
                    /\ p.status = "failed"
                    /\ children'[ref].state = "none"]_vars

\* a job has just been launched on the upload of its first file while its
\* second file has no upload, after one that failed on the same files in
\* the other order
C29_Witness ==
    /\ Len(heap) = 2
    /\ last.op = "start" /\ last.body.files = <<FileA, FileN>>
    /\ children[2].state = "alive"
    /\ children[2].args[2] = <<"u", "/">> \o Stored2A.name
    /\ heap[1].files = <<FileN, FileA>> /\ heap[1].status = "failed"

\* the artifacts of the results directory that process ref did not write
Foreign(ref) ==
    SelectSeq(fs.results, LAMBDA file : IsArtifact(file) /\ file # ReportOf(ref))

\* C30: the result files of a job that exits with code 0 are taken from
\* the whole results directory: every artifact there is listed, those of
\* other jobs and those found at start included, and what is listed
\* besides the job's own report is the same whether that report is there
\* or not.
C30_CollectionNotScoped ==
    [][\A ref \in Refs :
          (CloseStep(ref) /\ last'.message = "0") =>
              /\ \A other \in Refs :
                    ReportOf(other) \in Range(fs.results) =>
                        Listed(heap'[ref], ReportOf(other))
              /\ Foreign(ref) # <<>> =>
                    SelectSeq(heap'[ref].resultFiles, LAMBDA file : file # ReportOf(ref))
                       = Foreign(ref)]_vars

\* the second job has just completed without having written anything and
\* lists the report of the first, which is still running
C30_Witness ==
    /\ Len(heap) = 2
    /\ last.op = "close" /\ last.id = heap[2].id /\ last.message = "0"
    /\ fs.results = <<ReportOf(1)>>
    /\ heap[2].resultFiles = <<ReportOf(1)>>
    /\ heap[1].status = "running"

====
